---- MODULE Spec2Model ----
(***************************************************************************)
(* A model of powerwalk.WalkLimit (src/walker.go).                         *)
(*                                                                         *)
(* One call of WalkLimit is a set of goroutines: the caller (main), limit  *)
(* workers, the error monitor and the discoverer that drives               *)
(* filepath.Walk.  They communicate over three unbuffered channels, files, *)
(* kill and errs, and share the variable walkErr.                          *)
(*                                                                         *)
(* The workers run the same code and have no identity (the parameter i of  *)
(* the worker closure is unused), so the pool is the bag of their states.  *)
(*                                                                         *)
(* The tree is the list of callbacks filepath.Walk makes while the         *)
(* callback keeps returning nil: entry 1 is the root, entries 2..n follow  *)
(* in walk order.  A non-nil callback result ends the walk.                *)
(***************************************************************************)
EXTENDS Integers, Sequences, FiniteSets, Bags, TLC

\* ---------------------------------------------------------------- bounds
\* Largest number of entries of a tree.
MaxEntries == 3
\* Largest limit given to WalkLimit.
MaxLimit == 2
\* The limits that are not sensible are 0 down to -MaxBadLimit.
MaxBadLimit == 1

Limits == (0 - MaxBadLimit)..MaxLimit

\* ---------------------------------------------------------------- values
\* An error is a pair <<kind, entry>>; NoErr is the nil error.
NoErr == <<"nil", 0>>
VisitorErr(p) == <<"visitor", p>>
DiscoveryErr(p) == <<"discovery", p>>
\* errors.New("Error in walk. Cannot continue.")
WalkAbortErr == <<"walk", 0>>

\* An interface value is two machine words: the type word and the data word.
NilIface == [typ |-> "nil", data |-> NoErr]
Iface(e) == IF e = NoErr THEN NilIface ELSE [typ |-> "error", data |-> e]
\* v == nil compares the type word.
IsNil(v) == v.typ = "nil"

\* No walkArgs: the zero value a receive from a closed channel yields.
NilArgs == [path |-> 0, err |-> NoErr]

VARIABLES
    limit,      \* the limit argument
    walkFn,     \* the visitor: what it does for each entry
    lstatErr,   \* the tree: whether discovery of an entry failed
    mainpc,     \* position of the caller in WalkLimit
    retval,     \* the value WalkLimit returned
    panicked,   \* "no", or the panic that ended the process
    filesClosed,
    killClosed,
    workers,    \* the bag of the workers' states [pc, file]
    monpc,      \* position of the error monitor
    monVal,     \* the error the monitor received from errs
    walkErr,    \* the shared variable walkErr
    dpc,        \* position of the discoverer
    idx,        \* the entry filepath.Walk is at
    walkRet,    \* what filepath.Walk returned
    wg,         \* the WaitGroup counter
    invoked,    \* history: visitor invocations started, per entry
    errRet,     \* history: visitor invocations that returned an error, per entry
    dropped,    \* history: entries whose delivery attempt failed
    killCloses, \* history: calls of close(kill)
    errsAtRet,  \* history: error returns of visitors before WalkLimit returned
    prev,       \* an earlier call: its limit, result and leftover panics; or <<>>
    filesCloses,\* history: calls of close(files)
    lateCalls,  \* history: visitor invocations started after kill was closed
    lateSends   \* history: sends on files that succeeded after kill was closed

vars == <<limit, walkFn, lstatErr, mainpc, retval, panicked, filesClosed,
          killClosed, workers, monpc, monVal, walkErr, dpc, idx, walkRet,
          wg, invoked, errRet, dropped, killCloses, errsAtRet, prev,
          filesCloses, lateCalls, lateSends>>

input == <<limit, walkFn, lstatErr>>
mainv == <<mainpc, retval, errsAtRet>>
monv == <<monpc, monVal, walkErr>>
discv == <<dpc, idx, walkRet, wg>>
histv == <<invoked, errRet, dropped>>
latev == <<filesCloses, lateCalls, lateSends>>

Entries == 1..Len(walkFn)

\* ---------------------------------------------------------------- helpers
RECURSIVE Sum(_, _)
Sum(f, S) == IF S = {} THEN 0
             ELSE LET x == CHOOSE y \in S : TRUE IN f[x] + Sum(f, S \ {x})

\* The discovery error filepath.Walk passes to the callback for entry p.
FileErr(p) == IF lstatErr[p] THEN DiscoveryErr(p) ELSE NoErr

ArgsWithoutErr(p) == [path |-> p, err |-> NoErr]
\* &walkArgs{path: p, info: info, err: err}
Args(p) == [path |-> p, err |-> FileErr(p)]

\* walkFn(file.path, file.info, file.err) for a visitor that returns.
VisitorResult(file) ==
    CASE walkFn[file.path] = "nil" -> NoErr
      [] walkFn[file.path] = "err" -> VisitorErr(file.path)
      [] walkFn[file.path] = "pass" -> file.err
      [] OTHER -> NoErr

LimitAtLeastZero(l) == l >= 0
\* limit < 1 is the panic; the call goes on when this holds.
LimitIsSensible(l) == l >= 1

NumWorkersOffByOne(l) == l + 1
\* for i := 0; i < limit; i++ { go func ... }
NumWorkers(l) == l

ReportsAlways(err) == TRUE
\* if err := walkFn(...); err != nil { errs <- err }
ReportsError(err) == err # NoErr

\* A worker at pc holding file; file is in scope only inside case file := <-files.
W(pc, file) == [pc |-> pc, file |-> file]
Idle(pc) == W(pc, NilArgs)
\* Workers in state s.
Count(s) == CopiesIn(s, workers)
\* Workers at pc, whatever they hold.
At(pc) == {s \in BagToSet(workers) : s.pc = pc}
NumAt(pc) == Sum([s \in At(pc) |-> Count(s)], At(pc))
\* n workers in state from go to state to.
Moved(b, from, to, n) ==
    IF n = 0 THEN b
    ELSE LET rest == [s \in {x \in DOMAIN b : x # from \/ b[x] > n} |->
                        IF s = from THEN b[s] - n ELSE b[s]]
         IN rest (+) [s \in {to} |-> n]
\* Workers parked in their select are released: all of them go to state to.
Released(b, to) == Moved(b, Idle("parked"), to, CopiesIn(Idle("parked"), b))

ReceivedByAll(parked) == parked
\* How many of the parked receivers obtain the value of one send on the
\* unbuffered channel files.
Receivers(parked) == 1

Alive == panicked = "no"

\* ---------------------------------------------------------------- Init
\* An entry is what the visitor does for it ("nil": return nil, "err": return
\* an error of its own, "hang": never return, "pass": return the discovery
\* error it was given) and whether its discovery failed.  A tree is the
\* sequence of callbacks filepath.Walk makes while every callback returns nil:
\* when the root cannot be examined or read, its callback is the only one; an
\* entry below the root that fails is followed by the next entries.
Trees ==
    {t \in UNION {[1..n -> {<<"nil", FALSE>>, <<"err", FALSE>>,
                            <<"hang", FALSE>>, <<"nil", TRUE>>,
                            <<"pass", TRUE>>}] : n \in 1..MaxEntries} :
        t[1][2] => Len(t) = 1}

\* The state of a call before its first statement.
Fresh ==
    /\ mainpc = "start"
    /\ retval = NilIface
    /\ panicked = "no"
    /\ filesClosed = FALSE
    /\ killClosed = FALSE
    /\ workers = EmptyBag
    /\ monpc = "none"
    /\ monVal = NoErr
    /\ walkErr = NilIface
    /\ dpc = "none"
    /\ idx = 1
    /\ walkRet = NoErr
    /\ wg = 0
    /\ invoked = [p \in 1..Len(walkFn) |-> 0]
    /\ errRet = [p \in 1..Len(walkFn) |-> 0]
    /\ dropped = {}
    /\ killCloses = 0
    /\ errsAtRet = 0
    /\ filesCloses = 0
    /\ lateCalls = 0
    /\ lateSends = 0

Init ==
    /\ limit \in Limits
    /\ \E t \in Trees :
         /\ walkFn = [p \in DOMAIN t |-> t[p][1]]
         /\ lstatErr = [p \in DOMAIN t |-> t[p][2]]
    /\ Fresh
    /\ prev = <<>>

\* ---------------------------------------------------------------- close
\* close(kill) by a goroutine: a second close panics; the first releases
\* every worker parked in its select, which takes case <-kill and returns.
CloseKill ==
    /\ killCloses' = killCloses + 1
    /\ IF killClosed
       THEN /\ panicked' = "close of closed channel"
            /\ UNCHANGED <<killClosed, workers>>
       ELSE /\ killClosed' = TRUE
            /\ workers' = Released(workers, Idle("done"))
            /\ UNCHANGED panicked

\* ---------------------------------------------------------------- main
\* Lines 37-39: the limit check.
MainPanic ==
    /\ Alive /\ mainpc = "start"
    /\ ~LimitIsSensible(limit)
    /\ panicked' = "limit must be greater than zero"
    /\ UNCHANGED <<input, mainv, filesClosed, killClosed, workers, monv, discv,
                   histv, killCloses, prev, latev>>

\* Lines 41-91: the channels are made and the goroutines started.
MainSpawn ==
    /\ Alive /\ mainpc = "start"
    /\ LimitIsSensible(limit)
    /\ workers' = Moved(EmptyBag, Idle("loop"), Idle("loop"), NumWorkers(limit))
    /\ monpc' = "select"
    /\ dpc' = "check"
    /\ wg' = 1
    /\ mainpc' = "wait"
    /\ UNCHANGED <<input, retval, errsAtRet, panicked, filesClosed, killClosed,
                   monVal, walkErr, idx, walkRet, histv, killCloses, prev, latev>>

\* Lines 93 and 95: wg.Wait() returns once the discoverer called wg.Done();
\* if walkErr == nil is an unsynchronised read of walkErr.
MainTest ==
    /\ Alive /\ mainpc = "wait"
    /\ wg = 0
    /\ mainpc' = IF IsNil(walkErr) THEN "close" ELSE "return"
    /\ UNCHANGED <<input, retval, errsAtRet, panicked, filesClosed, killClosed,
                   workers, monv, discv, histv, killCloses, prev, latev>>

\* Line 96: close(kill); a monitor parked in its select takes case <-kill.
MainClose ==
    /\ Alive /\ mainpc = "close"
    /\ CloseKill
    /\ monpc' = IF ~killClosed /\ monpc = "parked" THEN "done" ELSE monpc
    /\ mainpc' = IF killClosed THEN mainpc ELSE "return"
    /\ UNCHANGED <<input, retval, errsAtRet, filesClosed, monVal, walkErr,
                   discv, histv, prev, latev>>

\* The value line 99 returns.
Returned == walkErr

\* Line 99: return walkErr, a second unsynchronised read of walkErr.
MainReturn ==
    /\ Alive /\ mainpc = "return"
    /\ retval' = Returned
    /\ errsAtRet' = Sum(errRet, Entries)
    /\ mainpc' = "returned"
    /\ UNCHANGED <<input, panicked, filesClosed, killClosed, workers, monv,
                   discv, histv, killCloses, prev, latev>>

\* ---------------------------------------------------------------- workers
\* Lines 48-55: a worker runs its select while neither channel is ready and
\* parks on both.
WorkerPark ==
    /\ Alive /\ Count(Idle("loop")) > 0
    /\ ~killClosed /\ ~filesClosed
    /\ workers' = Moved(workers, Idle("loop"), Idle("parked"), 1)
    /\ UNCHANGED <<input, mainv, panicked, filesClosed, killClosed, monv,
                   discv, histv, killCloses, prev, latev>>

\* Lines 53-54: the select takes case <-kill and the worker returns.
WorkerKilled ==
    /\ Alive /\ Count(Idle("loop")) > 0
    /\ killClosed
    /\ workers' = Moved(workers, Idle("loop"), Idle("done"), 1)
    /\ UNCHANGED <<input, mainv, panicked, filesClosed, killClosed, monv,
                   discv, histv, killCloses, prev, latev>>

\* Lines 49-50: the select takes case file := <-files on the closed channel:
\* file is nil and file.path panics.
WorkerRecvClosed ==
    /\ Alive /\ Count(Idle("loop")) > 0
    /\ filesClosed
    /\ workers' = Moved(workers, Idle("loop"), Idle("recv"), 1)
    /\ panicked' = "nil pointer dereference"
    /\ UNCHANGED <<input, mainv, filesClosed, killClosed, monv, discv, histv,
                   killCloses, prev, latev>>

\* Line 50: a worker that received file calls walkFn(file.path, file.info,
\* file.err).
WorkerCall(file) ==
    /\ Alive /\ Count(W("recv", file)) > 0
    /\ workers' = Moved(workers, W("recv", file), W("visit", file), 1)
    /\ invoked' = [invoked EXCEPT ![file.path] = @ + 1]
    /\ lateCalls' = IF killClosed THEN lateCalls + 1 ELSE lateCalls
    /\ UNCHANGED <<input, mainv, panicked, filesClosed, killClosed, monv,
                   discv, errRet, dropped, killCloses, prev, filesCloses, lateSends>>

\* Lines 50-52: walkFn returns; a non-nil error is to be sent on errs,
\* otherwise the worker goes round its loop.
WorkerVisitReturn(file) ==
    /\ Alive /\ Count(W("visit", file)) > 0
    /\ walkFn[file.path] # "hang"
    /\ LET err == VisitorResult(file) IN
         /\ errRet' = IF err # NoErr
                      THEN [errRet EXCEPT ![file.path] = @ + 1]
                      ELSE errRet
         /\ workers' = Moved(workers, W("visit", file),
                             IF ReportsError(err) THEN W("send", file)
                             ELSE Idle("loop"), 1)
    /\ UNCHANGED <<input, mainv, panicked, filesClosed, killClosed, monv,
                   discv, invoked, dropped, killCloses, prev, latev>>

\* ---------------------------------------------------------------- monitor
\* The monitor is inside the assignment of line 65.
StoreStates == {"store", "store data", "store typ"}

\* Lines 64-69: the monitor runs its select while no worker is sending on errs
\* and kill is open, and parks on both.
MonitorPark ==
    /\ Alive /\ monpc = "select"
    /\ ~killClosed
    /\ At("send") = {}
    /\ monpc' = "parked"
    /\ UNCHANGED <<input, mainv, panicked, filesClosed, killClosed, workers,
                   monVal, walkErr, discv, histv, killCloses, prev, latev>>

\* Line 65, the receive of case walkErr = <-errs: the send of a worker
\* (line 51) and the receive meet on the unbuffered channel; the worker goes
\* round its loop.
MonitorRecv(file) ==
    /\ Alive /\ monpc \in {"select", "parked"}
    /\ Count(W("send", file)) > 0
    /\ monVal' = VisitorResult(file)
    /\ monpc' = "store"
    /\ workers' = Moved(workers, W("send", file), Idle("loop"), 1)
    /\ UNCHANGED <<input, mainv, panicked, filesClosed, killClosed, walkErr,
                   discv, histv, killCloses, prev, latev>>

\* Lines 67-68: the select takes case <-kill and the monitor returns.
MonitorKilled ==
    /\ Alive /\ monpc = "select"
    /\ killClosed
    /\ monpc' = "done"
    /\ UNCHANGED <<input, mainv, panicked, filesClosed, killClosed, workers,
                   monVal, walkErr, discv, histv, killCloses, prev, latev>>

\* Line 65, the assignment to walkErr.  walkErr is an interface value of two
\* words written by two stores, and the caller reads it with no
\* synchronisation (lines 95 and 99): it can see either word without the other.
MonitorStoreFirst ==
    /\ Alive /\ monpc = "store"
    /\ \E first \in {"typ", "data"} :
         /\ walkErr' = IF first = "typ"
                       THEN [walkErr EXCEPT !.typ = Iface(monVal).typ]
                       ELSE [walkErr EXCEPT !.data = Iface(monVal).data]
         /\ monpc' = IF first = "typ" THEN "store data" ELSE "store typ"
    /\ UNCHANGED <<input, mainv, panicked, filesClosed, killClosed, workers,
                   monVal, discv, histv, killCloses, prev, latev>>

MonitorStoreRest ==
    /\ Alive /\ monpc \in {"store data", "store typ"}
    /\ walkErr' = Iface(monVal)
    /\ monpc' = "close"
    /\ UNCHANGED <<input, mainv, panicked, filesClosed, killClosed, workers,
                   monVal, discv, histv, killCloses, prev, latev>>

MonitorCloseAndLoop ==
    /\ Alive /\ monpc = "close"
    /\ CloseKill
    /\ monpc' = IF killClosed THEN monpc ELSE "select"
    /\ UNCHANGED <<input, mainv, filesClosed, monVal, walkErr, discv, histv,
                   prev, latev>>

\* Line 66: close(kill); the monitor's select is not in a loop.
MonitorClose ==
    /\ Alive /\ monpc = "close"
    /\ CloseKill
    /\ monpc' = IF killClosed THEN monpc ELSE "done"
    /\ UNCHANGED <<input, mainv, filesClosed, monVal, walkErr, discv, histv,
                   prev, latev>>

\* ---------------------------------------------------------------- discoverer
KillNeverObserved == FALSE
\* Line 78: case <-kill of the callback's outer select is ready.
KillObserved == killClosed

\* Lines 77-80 and 90: the callback for entry idx finds kill closed, closes
\* files and returns an error, which ends filepath.Walk; its result is
\* discarded and wg.Done() follows.  A worker parked on files would be
\* released to receive from the closed channel.
DiscCancelled ==
    /\ Alive /\ dpc = "check"
    /\ KillObserved
    /\ filesClosed' = TRUE
    /\ filesCloses' = filesCloses + 1
    /\ workers' = Released(workers, Idle("loop"))
    /\ walkRet' = WalkAbortErr
    /\ wg' = wg - 1
    /\ dpc' = "done"
    /\ UNCHANGED <<input, mainv, panicked, killClosed, monv, idx, histv,
                   killCloses, prev, lateCalls, lateSends>>

\* Line 81: kill is open, the outer select takes its default case.
DiscProceed ==
    /\ Alive /\ dpc = "check"
    /\ ~KillObserved
    /\ dpc' = "send"
    /\ UNCHANGED <<input, mainv, panicked, filesClosed, killClosed, workers,
                   monv, idx, walkRet, wg, histv, killCloses, prev, latev>>

RetriesEntry ==
    /\ idx' = idx
    /\ dpc' = "check"
    /\ wg' = wg

\* Lines 86 and 90: the callback returns nil and filepath.Walk goes on to the
\* next entry; after the last it returns nil and wg.Done() follows.
AfterCallback ==
    /\ idx' = idx + 1
    /\ dpc' = IF idx < Len(walkFn) THEN "check" ELSE "done"
    /\ wg' = IF idx < Len(walkFn) THEN wg ELSE wg - 1

\* Line 83: the send on files finds a worker parked at its receive and hands
\* it the walkArgs.
DiscSend ==
    /\ Alive /\ dpc = "send"
    /\ Count(Idle("parked")) > 0
    /\ workers' = Moved(workers, Idle("parked"), W("recv", Args(idx)),
                        Receivers(Count(Idle("parked"))))
    /\ lateSends' = IF killClosed THEN lateSends + 1 ELSE lateSends
    /\ AfterCallback
    /\ UNCHANGED <<input, mainv, panicked, filesClosed, killClosed, monv,
                   walkRet, histv, killCloses, prev, filesCloses, lateCalls>>

\* Lines 84-85: no receiver is waiting, the inner select takes its default
\* case and the entry is not sent.
DiscDrop ==
    /\ Alive /\ dpc = "send"
    /\ Count(Idle("parked")) = 0
    /\ dropped' = dropped \cup {idx}
    /\ AfterCallback
    /\ UNCHANGED <<input, mainv, panicked, filesClosed, killClosed, workers,
                   monv, walkRet, invoked, errRet, killCloses, prev, latev>>

\* ---------------------------------------------------------------- Next
Files == {Args(p) : p \in Entries}

Next ==
    \/ MainPanic
    \/ MainSpawn
    \/ MainTest
    \/ MainClose
    \/ MainReturn
    \/ WorkerPark
    \/ WorkerKilled
    \/ WorkerRecvClosed
    \/ \E file \in Files : WorkerCall(file)
    \/ \E file \in Files : WorkerVisitReturn(file)
    \/ MonitorPark
    \/ \E file \in Files : MonitorRecv(file)
    \/ MonitorKilled
    \/ MonitorStoreFirst
    \/ MonitorStoreRest
    \/ MonitorClose
    \/ DiscCancelled
    \/ DiscProceed
    \/ DiscSend
    \/ DiscDrop

Spec == Init /\ [][Next]_vars

\* Every goroutine that can take a step is eventually scheduled: the Go
\* scheduler runs every runnable goroutine.  A visitor that hangs, a goroutine
\* blocked on a channel and any goroutine of a process that panicked have no
\* step to take.  Every run of a call is finite (the tree is, and no loop runs
\* without receiving an entry), so the fair runs are those that go on until no
\* goroutine has a step, whichever goroutine the fairness is stated for.
FairSpec == Spec /\ WF_vars(Next)

\* The goroutines a call leaves behind when it returns (nothing waits for the
\* workers and the monitor) go on running in the caller's process.  A worker
\* left behind comes to send an error on errs, or comes back to its select.
WillSend(s) ==
    /\ s.pc \in {"recv", "visit", "send"} /\ s.file # NilArgs
    /\ walkFn[s.file.path] # "hang"
    /\ ReportsError(VisitorResult(s.file))
WillLoop(s) ==
    \/ s.pc = "loop"
    \/ /\ s.pc \in {"recv", "visit"} /\ s.file # NilArgs
       /\ walkFn[s.file.path] # "hang"
       /\ ~ReportsError(VisitorResult(s.file))
    \/ WillSend(s) /\ monpc \in {"select", "parked"}

\* The panics the goroutines of a returned call can still raise: the monitor
\* comes to close(kill) (line 66) after the caller closed kill (line 96), or a
\* worker comes to its select with files closed (lines 49-50).
LeftoverPanics ==
    {k \in {"close of closed channel"} :
        /\ killClosed
        /\ \/ monpc \in StoreStates \cup {"close"}
           \/ monpc = "select" /\ \E s \in BagToSet(workers) : WillSend(s)}
    \cup
    {k \in {"nil pointer dereference"} :
        filesClosed /\ \E s \in BagToSet(workers) : WillLoop(s)}

\* A caller that calls WalkLimit with limit 1 and, when it has returned, calls
\* it again on the same tree with the same visitor and a higher limit.  The
\* second call makes its own channels and goroutines; of the goroutines the
\* first call left behind it shares only the process, which their panic ends.
SecondCall ==
    /\ Alive /\ mainpc = "returned"
    /\ prev = <<>>
    /\ limit = 1
    /\ prev' = <<limit, retval, LeftoverPanics>>
    /\ limit' \in 2..MaxLimit
    /\ UNCHANGED <<walkFn, lstatErr>>
    /\ mainpc' = "start"
    /\ retval' = NilIface
    /\ panicked' = "no"
    /\ filesClosed' = FALSE
    /\ killClosed' = FALSE
    /\ workers' = EmptyBag
    /\ monpc' = "none"
    /\ monVal' = NoErr
    /\ walkErr' = NilIface
    /\ dpc' = "none"
    /\ idx' = 1
    /\ walkRet' = NoErr
    /\ wg' = 0
    /\ invoked' = [p \in Entries |-> 0]
    /\ errRet' = [p \in Entries |-> 0]
    /\ dropped' = {}
    /\ killCloses' = 0
    /\ errsAtRet' = 0
    /\ filesCloses' = 0
    /\ lateCalls' = 0
    /\ lateSends' = 0

\* Lines 66 and 49-50, in a goroutine the first call left behind: its panic
\* ends the process while the second call runs or after it returned.
LeftoverPanic ==
    /\ Alive
    /\ prev # <<>>
    /\ \E k \in prev[3] : panicked' = k
    /\ UNCHANGED <<input, mainv, filesClosed, killClosed, workers, monv, discv,
                   histv, killCloses, prev, latev>>

PairNext == Next \/ SecondCall \/ LeftoverPanic

PairSpec == Init /\ [][PairNext]_vars

\* ---------------------------------------------------------------- claims
Sensible == limit >= 1
HasReturned == mainpc = "returned"
\* The entries whose visitor invocation returns a non-nil error.
ErrEntries == {p \in Entries : walkFn[p] # "hang" /\ VisitorResult(Args(p)) # NoErr}
\* Visitor invocations in flight.
InFlight == NumAt("visit")
\* Workers that hold the walkArgs of entry p.
Holders(p) == Count(W("recv", Args(p))) + Count(W("visit", Args(p)))
                + Count(W("send", Args(p)))

\* C1: when exactly one visitor invocation returns a non-nil error Err, and it
\* has returned it before WalkLimit returns, WalkLimit returns Err.
C1_SingleErrorIsReturned ==
    (/\ Sensible /\ HasReturned
     /\ \A p \in Entries : walkFn[p] # "hang"
     /\ Cardinality(ErrEntries) = 1
     /\ errsAtRet = 1)
    => \E p \in ErrEntries : retval = Iface(VisitorResult(Args(p)))

\* C2: while no visitor invocation has returned an error, the call does not
\* panic, the caller or the discoverer it waits for can always take its next
\* step until WalkLimit has returned, and what WalkLimit returns is nil.
C2_NoErrorReturnsNil ==
    (Sensible /\ Sum(errRet, Entries) = 0)
    => /\ panicked = "no"
       /\ HasReturned => retval = NilIface
       /\ \/ HasReturned
          \/ ENABLED (MainSpawn \/ MainTest \/ MainClose \/ MainReturn)
          \/ ENABLED (DiscProceed \/ DiscSend \/ DiscDrop \/ DiscCancelled)

C2_Witness ==
    /\ Sensible /\ HasReturned
    /\ Len(walkFn) >= 2
    /\ \A p \in Entries : invoked[p] = 1
    /\ InFlight = 0
    /\ Sum(errRet, Entries) = 0
    /\ retval = NilIface

\* C3: when the visitor always returns nil, the visitor has been invoked
\* exactly once for every entry of the tree by the time WalkLimit returns.
C3_EveryEntryVisited ==
    (Sensible /\ HasReturned /\ \A p \in Entries : walkFn[p] = "nil")
    => \A p \in Entries : invoked[p] = 1

\* C4: every entry is held by at most one worker and the visitor is invoked at
\* most once for it, counting the worker that received it and has yet to call
\* the visitor.
C4_VisitedAtMostOnce ==
    \A p \in Entries :
        /\ Holders(p) <= 1
        /\ invoked[p] + Count(W("recv", Args(p))) <= 1

C4_Witness ==
    /\ Len(walkFn) >= 2
    /\ \A p \in Entries : invoked[p] = 1 /\ Count(W("visit", Args(p))) = 1

\* C5: at most limit visitor invocations are in flight, by at most limit
\* workers.
C5_InFlightAtMostLimit ==
    Sensible => (InFlight <= limit /\ BagCardinality(workers) <= limit)

C5_Witness ==
    /\ limit = 1
    /\ InFlight = 1
    /\ dpc = "send"

\* C6: with limit < 1 nothing is created, no visitor is invoked, no entry is
\* discovered and nothing is returned; the only step is the panic.
C6_BadLimitPanicsFirst ==
    ~Sensible
    => /\ workers = EmptyBag /\ monpc = "none" /\ dpc = "none"
       /\ \A p \in Entries : invoked[p] = 0
       /\ idx = 1 /\ dropped = {}
       /\ mainpc = "start" /\ retval = NilIface
       /\ wg = 0 /\ ~killClosed /\ ~filesClosed
       /\ \/ panicked = "limit must be greater than zero"
          \/ (panicked = "no" /\ ENABLED MainPanic /\ ~ENABLED MainSpawn)

C6_Witness ==
    /\ ~Sensible
    /\ panicked = "limit must be greater than zero"

\* C7: under fair scheduling a call with limit >= 1 eventually returns.
C7_CallReturns == Sensible => <>HasReturned

\* C8: a non-nil value WalkLimit returns is an error that a visitor invocation
\* of this call has returned.
C8_ReturnsOnlyVisitorErrors ==
    (HasReturned /\ ~IsNil(retval))
    => \E p \in Entries :
         /\ errRet[p] >= 1
         /\ retval = Iface(VisitorResult(Args(p)))

\* C9: the call with limit 1 and the call with a higher limit, on the same
\* tree with the same visitor, both return nil or both return non-nil.
C9_SameOutcome ==
    (prev # <<>> /\ HasReturned)
    => (IsNil(prev[2]) <=> IsNil(retval))

\* C10: close(kill) is called at most once in a call.
C10_KillClosedOnce == killCloses <= 1

\* Worker states that have left the loop, or sit in a visitor that never
\* returns.
Exited(s) == s.pc = "done"
Hung(s) == s.pc = "visit" /\ walkFn[s.file.path] = "hang"
\* Entries whose callback has returned.
Discovered == 1..(idx - 1)

\* C11: when WalkLimit has returned every worker has exited and no visitor
\* invocation is in flight.
C11_WorkersExitedAtReturn ==
    HasReturned
    => /\ \A s \in BagToSet(workers) : Exited(s)
       /\ InFlight = 0

\* C12: files is never closed twice, and once the discoverer has finished it
\* has been closed exactly once.
C12_FilesClosedOnce ==
    /\ filesCloses <= 1
    /\ (Sensible /\ dpc = "done") => filesCloses = 1

\* C13: no worker receives the nil value of the closed channel files: no
\* worker holds a nil file and none dereferences one.
C13_NoNilReceive ==
    /\ panicked # "nil pointer dereference"
    /\ \A s \in BagToSet(workers) :
         s.pc \in {"recv", "visit", "send"} => s.file # NilArgs

\* C14: under fair scheduling the call comes to a state where the discoverer
\* has finished and every worker has left its loop, but for the workers whose
\* visitor call never returns.
C14_WorkersExit ==
    Sensible
    => <>(\/ ~Alive
          \/ /\ dpc = "done"
             /\ \A s \in BagToSet(workers) : Exited(s) \/ Hung(s))

\* C15, as claimed: at most one visitor invocation starts after kill was
\* closed.
C15_OneLateStart == lateCalls <= 1

\* C15, amended: after kill was closed no send on files succeeds and at most
\* limit visitor invocations start; a callback that begins after kill was
\* closed makes no delivery attempt; once files is closed the discoverer has
\* finished and sends nothing.
C15_LateStartsAtMostLimit ==
    /\ [](/\ lateSends = 0
          /\ lateCalls <= (IF Sensible THEN limit ELSE 0)
          /\ killClosed => Count(Idle("parked")) = 0
          /\ filesClosed => (killClosed /\ dpc = "done"))
    /\ [][(killClosed /\ dpc = "check") => dpc' # "send"]_vars

C15_Witness ==
    /\ limit >= 2
    /\ lateCalls = limit
    /\ killClosed

\* C16: an entry whose callback has returned was either handed to a worker
\* parked at its receive or dropped, never both; a dropped entry is held by no
\* worker and never visited; the discoverer at its send can always go on; and
\* when no visitor returned an error the call that dropped entries returns nil.
C16_DropsAreSilent ==
    /\ \A p \in Entries :
         /\ p \in dropped => (p \in Discovered /\ invoked[p] = 0 /\ Holders(p) = 0)
         /\ (p \in Discovered /\ p \notin dropped)
              => invoked[p] + Count(W("recv", Args(p))) = 1
         /\ p \notin Discovered => (invoked[p] = 0 /\ Holders(p) = 0)
    /\ (Alive /\ dpc = "send") => ENABLED (DiscSend \/ DiscDrop)
    /\ (HasReturned /\ dropped # {} /\ errsAtRet = 0 /\ Sum(errRet, Entries) = 0)
         => IsNil(retval)

C16_Witness ==
    /\ HasReturned /\ IsNil(retval)
    /\ dropped = {1}
    /\ Len(walkFn) >= 2
    /\ invoked[2] = 1
    /\ \A s \in BagToSet(workers) : Exited(s)

\* C17: walkErr changes only while the monitor executes its assignment,
\* towards the error the monitor received; the monitor keeps the first error
\* it received, a word of walkErr that was set is never written again, and
\* after the assignment walkErr holds that first error.
C17_WalkErrWrittenOnce ==
    /\ [](monpc \in {"close", "done"} =>
            (walkErr = Iface(monVal) /\ (killCloses = 0 => monVal # NoErr)))
    /\ [][/\ walkErr' # walkErr =>
               /\ monpc \in StoreStates
               /\ walkErr'.typ \in {walkErr.typ, Iface(monVal).typ}
               /\ walkErr'.data \in {walkErr.data, Iface(monVal).data}
          /\ monVal # NoErr => monVal' = monVal
          /\ walkErr.typ # "nil" => walkErr'.typ = walkErr.typ
          /\ walkErr.data # NoErr => walkErr'.data = walkErr.data]_vars

C17_Witness ==
    /\ monpc = "done"
    /\ walkErr = Iface(monVal)
    /\ ~IsNil(walkErr)
    /\ \E s \in At("send") : VisitorResult(s.file) # monVal

\* C18: a worker is given the discovery error of its entry; filepath.Walk
\* ends early only when kill was closed; and when an entry has a discovery
\* error and no visitor returned an error, WalkLimit returns nil.
C18_DiscoveryErrorIsNotFatal ==
    /\ \A s \in BagToSet(workers) :
         s.file.path \in Entries => s.file.err = FileErr(s.file.path)
    /\ walkRet # NoErr => (killClosed /\ walkRet = WalkAbortErr)
    /\ (dpc = "done" /\ walkRet = NoErr) => idx = Len(walkFn) + 1
    /\ (HasReturned /\ Sum(errRet, Entries) = 0 /\ \E p \in Entries : lstatErr[p])
         => retval = NilIface

C18_Witness ==
    /\ HasReturned /\ retval = NilIface
    /\ \E p \in Entries :
         /\ lstatErr[p] /\ invoked[p] = 1
         /\ p < Len(walkFn) /\ invoked[p + 1] = 1
    /\ InFlight = 0 /\ Sum(errRet, Entries) = 0

====
